---- MODULE Spec2Model ----
(***************************************************************************)
(* Model of transformer_deploy/backends/ort_utils.py: the mixed-precision  *)
(* advisor (add_output_nodes, get_io_to_node_mapping, find_node_fp32,      *)
(* get_keep_fp32_nodes) and the zero-copy inference bridge (to_pytorch,    *)
(* inference_onnx_binding).                                                *)
(***************************************************************************)
EXTENDS Integers, Sequences, FiniteSets, TLC

\* ----------------------------------------------------------------- bounds
NumNodes == 3
MaxEarlyStop == 3

\* ------------------------------------------------------------ advisor state
VARIABLES
    heap,                   \* ModelProto objects by reference
    onnx_model,             \* reference of the model loaded at line 360
    onnx_model_fp32_all_nodes, \* reference returned by add_output_nodes (0: not yet)
    early_stop,             \* parameter of get_keep_fp32_nodes
    input_mapping,          \* input name -> consuming node name
    output_mapping,         \* output name -> producing node name
    keep_fp32_nodes,        \* the unsafe-node list
    no_new_node_counter,    \* the stall counter
    pc,                     \* position in get_keep_fp32_nodes
    loaded,                 \* the graph as loaded (never assigned after Init)
    iterations,             \* number of loop iterations executed
    last_growth,            \* index of the last iteration that grew the list
    pre_propagation         \* the list as it stood when the loop ended

advisor_vars ==
    <<heap, onnx_model, onnx_model_fp32_all_nodes, early_stop, input_mapping,
      output_mapping, keep_fp32_nodes, no_new_node_counter, pc, loaded,
      iterations, last_growth, pre_propagation>>

\* ------------------------------------------------------------ detector state
VARIABLES
    fn_pc,                  \* position in a call of find_node_fp32
    fn_graph,               \* its graph argument: output name -> node name
    fn_output_nodes,        \* its output_nodes argument, in insertion order
    fn_result               \* the list it returned

detector_vars == <<fn_pc, fn_graph, fn_output_nodes, fn_result>>

\* ------------------------------------------------------------ bridge state
VARIABLES
    device,                 \* argument of inference_onnx_binding
    clone_tensor,           \* argument of inference_onnx_binding
    supplied,               \* whether the caller passes its binding (else None)
    numpy_copies,           \* whether OrtValue.numpy() copies the host buffer
    b_pc,                   \* position in inference_onnx_binding
    call,                   \* number of calls started
    inputs,                 \* the caller's input mapping of the current call
    inputs_given,           \* that mapping as it was when the call started
    binding,                \* the IOBinding in use
    mem,                    \* buffer -> content, for output buffers
    outputs,                \* the dict the current call returns, in order
    results,                \* per returned call: its tensors and their content then
    log                     \* the engine calls made by the current call

bridge_vars ==
    <<device, clone_tensor, supplied, numpy_copies, b_pc, call, inputs,
      inputs_given, binding, mem, outputs, results, log>>

vars == <<advisor_vars, detector_vars, bridge_vars>>

\* ------------------------------------------------------------ sequences
Range(s) == {s[i] : i \in DOMAIN s}

RECURSIVE Flatten(_)
Flatten(ss) == IF ss = <<>> THEN <<>> ELSE Head(ss) \o Flatten(Tail(ss))

IsPrefix(s, t) == Len(s) <= Len(t) /\ SubSeq(t, 1, Len(s)) = s

NoDuplicates(s) == \A i, j \in DOMAIN s : s[i] = s[j] => i = j

\* ------------------------------------------------------------ float values
\* A float is a special value or sign * (whole + frac * 10^-10).
Num(neg, whole, frac) == [kind |-> "num", neg |-> neg, whole |-> whole, frac |-> frac]
PosInf == [kind |-> "inf", neg |-> FALSE, whole |-> 0, frac |-> 0]
NaN == [kind |-> "nan", neg |-> FALSE, whole |-> 0, frac |-> 0]
Zero == Num(FALSE, 0, 0)
NegZero == Num(TRUE, 0, 0)

IsZero(a) == a.kind = "num" /\ a.whole = 0 /\ a.frac = 0

MagLt(a, b) == a.whole < b.whole \/ (a.whole = b.whole /\ a.frac < b.frac)

\* a < b as IEEE comparison: false when either side is NaN, -0 equals +0.
FloatLt(a, b) ==
    IF a.kind = "nan" \/ b.kind = "nan" THEN FALSE
    ELSE IF a.kind = "inf" THEN a.neg /\ ~(b.kind = "inf" /\ b.neg)
    ELSE IF b.kind = "inf" THEN ~b.neg
    ELSE IF IsZero(a) /\ IsZero(b) THEN FALSE
    ELSE IF a.neg /\ ~b.neg THEN TRUE
    ELSE IF ~a.neg /\ b.neg THEN FALSE
    ELSE IF a.neg THEN MagLt(b, a)
    ELSE MagLt(a, b)

FloatGt(a, b) == FloatLt(b, a)

\* a != 0: true for NaN.
FloatNeZero(a) == ~IsZero(a)

max_float16 == Num(FALSE, 65504, 0)
min_float16 == Num(TRUE, 65504, 0)
resolution == Num(FALSE, 0, 596)
neg_resolution == Num(TRUE, 0, 596)

\* ------------------------------------------------------------ find_node_fp32
OutOfRange(tensor) ==
    \/ \E i \in DOMAIN tensor.data : FloatGt(tensor.data[i], max_float16)
    \/ \E i \in DOMAIN tensor.data : FloatLt(tensor.data[i], min_float16)
    \/ \E i \in DOMAIN tensor.data :
          /\ FloatLt(tensor.data[i], resolution)
          /\ FloatGt(tensor.data[i], neg_resolution)
          /\ FloatNeZero(tensor.data[i])

KeepEntryInclusive(e) ==
    /\ e.tensor.dtype = "float32"
    /\ \/ OutOfRange(e.tensor)
       \/ \E i \in DOMAIN e.tensor.data :
             e.tensor.data[i] \in {max_float16, min_float16, Zero}
KeepEntry(e) == e.tensor.dtype = "float32" /\ OutOfRange(e.tensor)

\* output_nodes is the dict in insertion order: a sequence of [name, tensor].
find_node_fp32(graph, output_nodes) ==
    LET kept == SelectSeq(output_nodes, KeepEntry)
    IN  [i \in DOMAIN kept |-> graph[kept[i].name]]

\* ------------------------------------------------------------ graphs
NodeName(i) == <<"node", i>>
OutName(i) == <<"out", i>>
AuxName(i) == <<"aux", i>>
GraphIn == <<"in", 0>>
Weight == <<"weight", 0>>

\* The first node reads the graph input; a later node reads one or two
\* outputs of earlier nodes (the graph is acyclic).
InputChoices(i) ==
    IF i = 1 THEN {<<GraphIn, Weight>>}
    ELSE {<<OutName(j), Weight>> : j \in 1..(i - 1)}
         \cup {<<OutName(jk[1]), OutName(jk[2])>> :
                  jk \in {p \in (1..(i - 1)) \X (1..(i - 1)) : p[1] < p[2]}}

\* The outputs of S, as a sequence in increasing node order.
OutputsOf(S) == LET idx == SelectSeq([i \in 1..NumNodes |-> i], LAMBDA i : i \in S)
                IN  [k \in DOMAIN idx |-> OutName(idx[k])]

MkGraph(ins, outs, malformed) ==
    [node |-> [i \in 1..NumNodes |->
                 [name |-> NodeName(i),
                  input |-> ins[i],
                  output |-> IF malformed /\ i = NumNodes
                             THEN <<OutName(i), AuxName(i)>>
                             ELSE <<OutName(i)>>]],
     input |-> <<GraphIn>>,
     output |-> OutputsOf(outs),
     initializer |-> <<Weight>>]

Graphs ==
    {MkGraph(ins, outs, mal) :
        ins \in {f \in [1..NumNodes -> UNION {InputChoices(i) : i \in 1..NumNodes}] :
                    \A i \in 1..NumNodes : f[i] \in InputChoices(i)},
        outs \in SUBSET (1..NumNodes),
        mal \in BOOLEAN}

\* node 1 -> node 2 -> ... -> node NumNodes, whose output is the graph's output
ChainGraph ==
    MkGraph([i \in 1..NumNodes |->
                IF i = 1 THEN <<GraphIn, Weight>> ELSE <<OutName(i - 1), Weight>>],
            {NumNodes}, FALSE)

\* The analysis runs explored: every graph with a stall threshold of 0 or 1
\* (every unsafe list is reachable with threshold 1), and the chain graph
\* with every threshold up to MaxEarlyStop.
Runs ==
    {[graph |-> g, early_stop |-> e] : g \in Graphs, e \in 0..1}
    \cup {[graph |-> ChainGraph, early_stop |-> e] : e \in 0..MaxEarlyStop}

\* ------------------------------------------------------------ add_output_nodes
DeepCopyAlias(h, model) == [heap |-> h, ref |-> model]
DeepCopy(h, model) ==
    LET new == Cardinality(DOMAIN h) + 1
    IN  [heap |-> (new :> h[model]) @@ h, ref |-> new]

add_output_nodes(h, model) ==
    LET c == DeepCopy(h, model)
        g == c.heap[c.ref]
        output_nodes == Flatten([i \in DOMAIN g.node |-> g.node[i].output])
    IN  [heap |-> [c.heap EXCEPT ![c.ref].output = output_nodes], ref |-> c.ref]

\* ------------------------------------------------------------ get_io_to_node_mapping
Put(d, k, v) == [x \in DOMAIN d \cup {k} |-> IF x = k THEN v ELSE d[x]]

RECURSIVE PutAll(_, _, _)
PutAll(d, ks, v) == IF ks = <<>> THEN d ELSE PutAll(Put(d, Head(ks), v), Tail(ks), v)

EmptyDict == [x \in {} |-> x]

WellFormed(g) == \A i \in DOMAIN g.node : Len(g.node[i].output) = 1

RECURSIVE IoMappingFrom(_, _, _, _)
IoMappingFrom(nodes, k, im, om) ==
    IF k > Len(nodes) THEN [input_mapping |-> im, output_mapping |-> om]
    ELSE IoMappingFrom(nodes, k + 1,
                       PutAll(im, nodes[k].input, nodes[k].name),
                       Put(om, nodes[k].output[1], nodes[k].name))

get_io_to_node_mapping(g) == IoMappingFrom(g.node, 1, EmptyDict, EmptyDict)

\* ------------------------------------------------------------ the sampling loop
F32(v) == [dtype |-> "float32", data |-> <<v>>]
SampleTensors ==
    {F32(Num(FALSE, 1, 0)), F32(Num(FALSE, 65505, 0)),
     [dtype |-> "float16", data |-> <<PosInf>>]}

LoopGuardInclusive(counter, stop) == counter <= stop
LoopGuard(counter, stop) == counter < stop

NodesToAddUnfiltered(keep_node_io, keep) == keep_node_io
NodesToAdd(keep_node_io, keep) ==
    SelectSeq(keep_node_io, LAMBDA n : n \notin Range(keep))

CounterAfterNeverReset(nodes_to_add, counter) == counter + 1
CounterAfter(nodes_to_add, counter) ==
    IF Len(nodes_to_add) = 0 THEN counter + 1 ELSE 0

\* ------------------------------------------------------------ propagation
NodesToSkip(g) == Range(g.input) \cup Range(g.output) \cup Range(g.initializer)

\* line 400 raises KeyError for an output nobody consumes and nobody skips
PropagationRaises(g, im, skip) ==
    \E i \in DOMAIN g.node : \E j \in DOMAIN g.node[i].output :
        g.node[i].output[j] \notin skip /\ g.node[i].output[j] \notin DOMAIN im

ChildrenOf(n, im, skip) ==
    LET outs == SelectSeq(n.output, LAMBDA o : o \notin skip)
    IN  [j \in DOMAIN outs |-> im[outs[j]]]

\* defaultdict(list): a key exists only once a child was appended under it
MapChildren(g, im, skip) ==
    LET with == {i \in DOMAIN g.node : ChildrenOf(g.node[i], im, skip) # <<>>}
    IN  [name \in {g.node[i].name : i \in with} |->
            Flatten([i \in DOMAIN g.node |->
                        IF g.node[i].name = name
                        THEN ChildrenOf(g.node[i], im, skip) ELSE <<>>])]

RECURSIVE ExpandGrowingFrom(_, _, _)
ExpandGrowingFrom(keep, k, map_children) ==
    IF k > Len(keep) THEN keep
    ELSE ExpandGrowingFrom(
            keep \o (IF keep[k] \in DOMAIN map_children
                     THEN map_children[keep[k]] ELSE <<>>),
            k + 1, map_children)
ExpandGrowing(keep, map_children) == ExpandGrowingFrom(keep, 1, map_children)

\* line 402: the comprehension is evaluated over the list before it is extended
Expand(keep, map_children) ==
    keep \o Flatten([k \in DOMAIN keep |->
                        IF keep[k] \in DOMAIN map_children
                        THEN map_children[keep[k]] ELSE <<>>])

\* ------------------------------------------------------------ get_keep_fp32_nodes
DetectorIdle ==
    /\ fn_pc = "off"
    /\ fn_graph = <<>>
    /\ fn_output_nodes = <<>>
    /\ fn_result = <<>>

EmptyBinding == [inputs |-> EmptyDict, outputs |-> <<>>, values |-> <<>>]

BridgeIdle ==
    /\ device = "cpu"
    /\ clone_tensor = FALSE
    /\ supplied = FALSE
    /\ numpy_copies = FALSE
    /\ b_pc = "off"
    /\ call = 0
    /\ inputs = EmptyDict
    /\ inputs_given = EmptyDict
    /\ binding = EmptyBinding
    /\ mem = EmptyDict
    /\ outputs = <<>>
    /\ results = <<>>
    /\ log = <<>>

Init ==
    /\ DetectorIdle
    /\ BridgeIdle
    /\ \E r \in Runs : /\ heap = (1 :> r.graph)
                       /\ loaded = r.graph
                       /\ early_stop = r.early_stop
    /\ onnx_model = 1
    /\ onnx_model_fp32_all_nodes = 0
    /\ input_mapping = EmptyDict
    /\ output_mapping = EmptyDict
    /\ keep_fp32_nodes = <<>>
    /\ no_new_node_counter = 0
    /\ pc = "start"
    /\ iterations = 0
    /\ last_growth = 0
    /\ pre_propagation = <<>>

\* lines 360-366
AddOutputNodes ==
    /\ UNCHANGED <<detector_vars, bridge_vars>>
    /\ pc = "start"
    /\ LET r == add_output_nodes(heap, onnx_model)
       IN  heap' = r.heap /\ onnx_model_fp32_all_nodes' = r.ref
    /\ pc' = "index"
    /\ UNCHANGED <<onnx_model, early_stop, input_mapping, output_mapping,
                   keep_fp32_nodes, no_new_node_counter, loaded, iterations,
                   last_growth, pre_propagation>>

\* line 367, the assertion of line 323 holding
GetIoToNodeMapping ==
    /\ UNCHANGED <<detector_vars, bridge_vars>>
    /\ pc = "index"
    /\ WellFormed(heap[onnx_model])
    /\ LET m == get_io_to_node_mapping(heap[onnx_model])
       IN  input_mapping' = m.input_mapping /\ output_mapping' = m.output_mapping
    /\ pc' = "loop"
    /\ UNCHANGED <<heap, onnx_model, onnx_model_fp32_all_nodes, early_stop,
                   keep_fp32_nodes, no_new_node_counter, loaded, iterations,
                   last_growth, pre_propagation>>

\* line 323: assert len(node.output) == 1 fails
MappingAssertionFails ==
    /\ UNCHANGED <<detector_vars, bridge_vars>>
    /\ pc = "index"
    /\ ~WellFormed(heap[onnx_model])
    /\ pc' = "failed"
    /\ UNCHANGED <<heap, onnx_model, onnx_model_fp32_all_nodes, early_stop,
                   input_mapping, output_mapping, keep_fp32_nodes,
                   no_new_node_counter, loaded, iterations, last_growth,
                   pre_propagation>>

\* lines 371-383: one iteration; the sampled outputs are whatever the
\* generator and the engine produce for the instrumented graph's outputs
SampleIteration ==
    /\ UNCHANGED <<detector_vars, bridge_vars>>
    /\ pc = "loop"
    /\ LoopGuard(no_new_node_counter, early_stop)
    /\ LET declared == heap[onnx_model_fp32_all_nodes].output
       IN  \E ts \in [DOMAIN declared -> SampleTensors] :
             LET sampled == [i \in DOMAIN declared |->
                                [name |-> declared[i], tensor |-> ts[i]]]
                 keep_node_io == find_node_fp32(output_mapping, sampled)
                 nodes_to_add == NodesToAdd(keep_node_io, keep_fp32_nodes)
             IN  /\ keep_fp32_nodes' = keep_fp32_nodes \o nodes_to_add
                 /\ no_new_node_counter' = CounterAfter(nodes_to_add, no_new_node_counter)
    /\ iterations' = iterations + 1
    /\ last_growth' = IF Len(keep_fp32_nodes') > Len(keep_fp32_nodes)
                      THEN iterations + 1 ELSE last_growth
    /\ UNCHANGED <<heap, onnx_model, onnx_model_fp32_all_nodes, early_stop,
                   input_mapping, output_mapping, pc, loaded, pre_propagation>>

\* line 371 false, lines 385-386
ExitLoop ==
    /\ UNCHANGED <<detector_vars, bridge_vars>>
    /\ pc = "loop"
    /\ ~LoopGuard(no_new_node_counter, early_stop)
    /\ pre_propagation' = keep_fp32_nodes
    /\ pc' = "propagate"
    /\ UNCHANGED <<heap, onnx_model, onnx_model_fp32_all_nodes, early_stop,
                   input_mapping, output_mapping, keep_fp32_nodes,
                   no_new_node_counter, loaded, iterations, last_growth>>

\* lines 388-403
Propagate ==
    /\ UNCHANGED <<detector_vars, bridge_vars>>
    /\ pc = "propagate"
    /\ LET g == heap[onnx_model]
           nodes_to_skip == NodesToSkip(g)
       IN  /\ ~PropagationRaises(g, input_mapping, nodes_to_skip)
           /\ keep_fp32_nodes' =
                 Expand(keep_fp32_nodes, MapChildren(g, input_mapping, nodes_to_skip))
    /\ pc' = "done"
    /\ UNCHANGED <<heap, onnx_model, onnx_model_fp32_all_nodes, early_stop,
                   input_mapping, output_mapping, no_new_node_counter, loaded,
                   iterations, last_growth, pre_propagation>>

\* line 400: KeyError
PropagateRaises ==
    /\ UNCHANGED <<detector_vars, bridge_vars>>
    /\ pc = "propagate"
    /\ PropagationRaises(heap[onnx_model], input_mapping, NodesToSkip(heap[onnx_model]))
    /\ pc' = "failed"
    /\ UNCHANGED <<heap, onnx_model, onnx_model_fp32_all_nodes, early_stop,
                   input_mapping, output_mapping, keep_fp32_nodes,
                   no_new_node_counter, loaded, iterations, last_growth,
                   pre_propagation>>

Next ==
    \/ AddOutputNodes
    \/ GetIoToNodeMapping
    \/ MappingAssertionFails
    \/ SampleIteration
    \/ ExitLoop
    \/ Propagate
    \/ PropagateRaises

Spec == Init /\ [][Next]_vars

\* ------------------------------------------------------------ claims
NodeNames(g) == {g.node[i].name : i \in DOMAIN g.node}

\* The nodes of g that read an output of the node called name.
DirectChildren(g, name) ==
    {g.node[c].name : c \in {c \in DOMAIN g.node :
        \E i \in DOMAIN g.node :
            /\ g.node[i].name = name
            /\ Range(g.node[i].output) \cap Range(g.node[c].input) # {}}}

RECURSIVE OutputsBefore(_, _)
OutputsBefore(g, i) ==
    IF i <= 1 THEN 0 ELSE OutputsBefore(g, i - 1) + Len(g.node[i - 1].output)

\* C1 (as claimed): when get_keep_fp32_nodes returns, every direct child of
\* every node that was in the unsafe list at the end of the sampling loop is in
\* the returned list.
C1_AllDirectChildrenKept ==
    pc = "done" =>
        \A k \in Range(pre_propagation) :
            DirectChildren(loaded, k) \subseteq Range(keep_fp32_nodes)

\* C2: the loop starts with an empty list and a zero stall counter, the counter
\* counts the iterations since the last one that grew the list, and the loop
\* is left exactly when that count equals early_stop.
C2_StallExit ==
    /\ (pc = "loop" /\ iterations = 0) =>
          (keep_fp32_nodes = <<>> /\ no_new_node_counter = 0)
    /\ pc = "loop" =>
          /\ no_new_node_counter <= early_stop
          /\ no_new_node_counter = iterations - last_growth
    /\ pc \in {"propagate", "done"} =>
          /\ iterations - last_growth = early_stop
          /\ no_new_node_counter = early_stop

C2_Witness ==
    /\ pc = "propagate"
    /\ early_stop = 3
    /\ last_growth = 2
    /\ iterations = 5

\* C3: an iteration of the sampling loop keeps the list it found as a prefix of
\* the list it leaves, resets the stall counter to zero exactly when the list
\* grew and adds one to it otherwise.
C3_AppendOnly ==
    [][iterations' = iterations + 1 =>
          /\ IsPrefix(keep_fp32_nodes, keep_fp32_nodes')
          /\ (Len(keep_fp32_nodes') > Len(keep_fp32_nodes)
                 => no_new_node_counter' = 0)
          /\ (Len(keep_fp32_nodes') = Len(keep_fp32_nodes)
                 => no_new_node_counter' = no_new_node_counter + 1)]_vars

C3_Witness ==
    /\ pc = "loop"
    /\ iterations = 3
    /\ last_growth = 3
    /\ Len(keep_fp32_nodes) = 2
    /\ no_new_node_counter = 0

\* C7: the graph add_output_nodes returns is another object than its argument,
\* with the same nodes and inputs and one graph output per node output in node
\* order; the argument keeps the outputs, nodes, inputs and initializers it had,
\* so the skip list is built from the original outputs.
C7_CopyOnWrite ==
    pc # "start" =>
        LET c == heap[onnx_model_fp32_all_nodes]
        IN  /\ onnx_model_fp32_all_nodes # onnx_model
            /\ heap[onnx_model] = loaded
            /\ c.node = loaded.node
            /\ c.input = loaded.input
            /\ Len(c.output) = OutputsBefore(loaded, Len(loaded.node) + 1)
            /\ \A i \in DOMAIN loaded.node : \A j \in DOMAIN loaded.node[i].output :
                  c.output[OutputsBefore(loaded, i) + j] = loaded.node[i].output[j]
            /\ NodesToSkip(heap[onnx_model]) = NodesToSkip(loaded)

C7_Witness ==
    /\ pc = "done"
    /\ heap[onnx_model_fp32_all_nodes].output # loaded.output
    /\ Len(heap[onnx_model_fp32_all_nodes].output) = NumNodes
    /\ Len(keep_fp32_nodes) > Len(pre_propagation)

\* C8: the returned list is the list as the loop left it followed only by direct
\* children of that list's members.
C8_SingleExpansionPass ==
    pc = "done" =>
        /\ IsPrefix(pre_propagation, keep_fp32_nodes)
        /\ \A i \in (Len(pre_propagation) + 1)..Len(keep_fp32_nodes) :
              \E k \in Range(pre_propagation) :
                  keep_fp32_nodes[i] \in DirectChildren(loaded, k)

\* a child was added whose own child (a grandchild) stays out of the result
C8_Witness ==
    /\ pc = "done"
    /\ \E i \in (Len(pre_propagation) + 1)..Len(keep_fp32_nodes) :
          \E gc \in DirectChildren(loaded, keep_fp32_nodes[i]) :
              gc \notin Range(keep_fp32_nodes)

\* C10: the unsafe list holds node names only and none twice, and every
\* iteration uses up one unit of (NumNodes - length) * early_stop + early_stop -
\* counter, so the loop runs at most (NumNodes + 1) * early_stop iterations.
C10_LoopBound ==
    LET n == Len(loaded.node)
    IN  /\ iterations <= (n + 1) * early_stop
        /\ pc = "loop" =>
              /\ NoDuplicates(keep_fp32_nodes)
              /\ Range(keep_fp32_nodes) \subseteq NodeNames(loaded)
              /\ iterations
                    + (n - Len(keep_fp32_nodes)) * early_stop
                    + (early_stop - no_new_node_counter)
                 <= (n + 1) * early_stop

\* the bound is attained
C10_Witness ==
    /\ pc = "propagate"
    /\ early_stop = 2
    /\ iterations = (NumNodes + 1) * early_stop

\* Termination of get_keep_fp32_nodes when every step that can run does run.
FairSpec == Spec /\ WF_vars(Next)
Terminates == <>(pc \in {"done", "failed"})
\* ------------------------------------------------------------ find_node_fp32 alone
MaxLen == 2

FloatValues ==
    {Num(TRUE, 65505, 0), min_float16, neg_resolution, Num(TRUE, 0, 595), NegZero,
     Zero, Num(FALSE, 0, 595), resolution, Num(FALSE, 1, 0), max_float16,
     Num(FALSE, 65505, 0), PosInf, NaN}

Dtypes == {"float32", "float16", "float64"}

Tensors ==
    {[dtype |-> d, data |-> v] :
        d \in Dtypes, v \in UNION {[1..n -> FloatValues] : n \in 0..MaxLen}}

\* Two sampled outputs, in either insertion order.
DetectorInputs ==
    {<<[name |-> OutName(a), tensor |-> t], [name |-> OutName(3 - a), tensor |-> u]>> :
        a \in 1..2, t \in Tensors, u \in SampleTensors}

AdvisorIdle ==
    /\ heap = <<>>
    /\ loaded = <<>>
    /\ early_stop = 0
    /\ onnx_model = 0
    /\ onnx_model_fp32_all_nodes = 0
    /\ input_mapping = EmptyDict
    /\ output_mapping = EmptyDict
    /\ keep_fp32_nodes = <<>>
    /\ no_new_node_counter = 0
    /\ pc = "off"
    /\ iterations = 0
    /\ last_growth = 0
    /\ pre_propagation = <<>>

InitDetector ==
    /\ AdvisorIdle
    /\ BridgeIdle
    /\ fn_pc = "call"
    /\ fn_graph = [o \in {OutName(1), OutName(2)} |-> NodeName(o[2])]
    /\ fn_output_nodes \in DetectorInputs
    /\ fn_result = <<>>

\* lines 297-311
FindNodeFp32 ==
    /\ fn_pc = "call"
    /\ fn_result' = find_node_fp32(fn_graph, fn_output_nodes)
    /\ fn_pc' = "returned"
    /\ UNCHANGED <<fn_graph, fn_output_nodes, advisor_vars, bridge_vars>>

NextDetector == FindNodeFp32

SpecDetector == InitDetector /\ [][NextDetector]_vars

\* value > 65504, value < -65504, 0 < |value| < 5.96e-08, on the decimal digits
AboveMax(v) ==
    \/ v.kind = "inf" /\ ~v.neg
    \/ v.kind = "num" /\ ~v.neg /\ (v.whole > 65504 \/ (v.whole = 65504 /\ v.frac > 0))
BelowMin(v) ==
    \/ v.kind = "inf" /\ v.neg
    \/ v.kind = "num" /\ v.neg /\ (v.whole > 65504 \/ (v.whole = 65504 /\ v.frac > 0))
Underflows(v) == v.kind = "num" /\ v.whole = 0 /\ v.frac > 0 /\ v.frac < 596

Flagged(t) ==
    /\ t.dtype = "float32"
    /\ \E i \in DOMAIN t.data :
          AboveMax(t.data[i]) \/ BelowMin(t.data[i]) \/ Underflows(t.data[i])

\* C5: find_node_fp32 returns, in the order of the sampled-output mapping, the
\* producing node of exactly the outputs that are 32-bit float and hold an
\* element above the 16-bit maximum, below its minimum, or nonzero with a
\* magnitude below the resolution.
C5_FlaggedExactly ==
    fn_pc = "returned" =>
        LET idx == SelectSeq([i \in DOMAIN fn_output_nodes |-> i],
                             LAMBDA i : Flagged(fn_output_nodes[i].tensor))
        IN  /\ Len(fn_result) = Len(idx)
            /\ \A k \in DOMAIN idx : fn_result[k] = fn_graph[fn_output_nodes[idx[k]].name]

\* the first output sits on the boundary (the maximum and zero) and is not
\* flagged, the second exceeds the maximum and is
C5_Witness ==
    /\ fn_pc = "returned"
    /\ fn_output_nodes[1].tensor = [dtype |-> "float32", data |-> <<max_float16, Zero>>]
    /\ fn_output_nodes[2].tensor = F32(Num(FALSE, 65505, 0))
    /\ fn_result = <<fn_graph[fn_output_nodes[2].name]>>
\* ------------------------------------------------------------ inference bridge
MaxCalls == 2

\* model_onnx.get_inputs() and model_onnx.get_outputs(), by name
SessionInputs == <<"input_ids", "token_type_ids">>
SessionOutputs == <<"logits", "pooled">>

\* the keys of torch_to_numpy_dtype_dict
SupportedDtypes ==
    {"bool", "uint8", "int8", "int16", "int32", "int64", "float16", "float32",
     "float64", "complex64", "complex128"}

NumpyType(dtype) == <<"np", dtype>>

\* An integer element as two 32-bit words.
Words(hi, lo) == [hi |-> hi, lo |-> lo]

\* int64 -> int32 keeps the low word
ToInt32(data) == Words(0, data.lo)

TorchTensor(dtype, contiguous, requires_grad, data, ptr) ==
    [dtype |-> dtype, contiguous |-> contiguous, requires_grad |-> requires_grad,
     data |-> data, ptr |-> ptr]

InputIdsChoices(c) ==
    LET ptr == <<"caller", c, "input_ids">>
    IN  {TorchTensor("int64", FALSE, FALSE, Words(1, 5), ptr),
         TorchTensor("int32", TRUE, FALSE, Words(0, 7), ptr),
         TorchTensor("float32", FALSE, TRUE, Words(0, 1), ptr),
         TorchTensor("bfloat16", TRUE, FALSE, Words(0, 1), ptr)}

TokenTypeChoices(c) ==
    LET ptr == <<"caller", c, "token_type_ids">>
    IN  {TorchTensor("int64", TRUE, FALSE, Words(0, 1), ptr),
         TorchTensor("bfloat16", TRUE, FALSE, Words(0, 1), ptr)}

\* The mappings a caller passes to call c: input_ids, labels (no graph
\* input), and the optional token_type_ids.
CallInputs(c) ==
    LET labels == TorchTensor("int64", FALSE, FALSE, Words(0, 2), <<"caller", c, "labels">>)
    IN  {[k \in {"input_ids", "labels"} |->
            IF k = "input_ids" THEN ids ELSE labels] : ids \in InputIdsChoices(c)}
        \cup
        {[k \in {"input_ids", "labels", "token_type_ids"} |->
            CASE k = "input_ids" -> ids
              [] k = "labels" -> labels
              [] OTHER -> types] :
            ids \in InputIdsChoices(c), types \in TokenTypeChoices(c)}

\* lines 239-243 without the cast of line 242
PrepareTensorNoNarrow(t, c, name) ==
    IF t.contiguous THEN [t EXCEPT !.requires_grad = FALSE]
    ELSE [t EXCEPT !.requires_grad = FALSE, !.contiguous = TRUE,
                   !.ptr = <<"bridge", c, name>>]
\* lines 239-243: detach, cast int64 to int32, make contiguous; a cast or a
\* copy yields new storage
PrepareTensor(t, c, name) ==
    LET detached == [t EXCEPT !.requires_grad = FALSE]
        cast == IF detached.dtype = "int64"
                THEN [detached EXCEPT !.dtype = "int32", !.data = ToInt32(@),
                                      !.ptr = <<"bridge", c, name>>]
                ELSE detached
    IN  IF cast.contiguous THEN cast
        ELSE [cast EXCEPT !.contiguous = TRUE, !.ptr = <<"bridge", c, name>>]

LogEntry(op, name) == [op |-> op, name |-> name]

bind_input(b, name, device_type, element_type, buffer_ptr) ==
    [b EXCEPT !.inputs = Put(@, name, [device_type |-> device_type,
                                       element_type |-> element_type,
                                       buffer_ptr |-> buffer_ptr])]

bind_output(b, name, device_type) ==
    LET entry == [name |-> name, device_type |-> device_type]
    IN  IF \E i \in DOMAIN b.outputs : b.outputs[i].name = name
        THEN [b EXCEPT !.outputs = [i \in DOMAIN b.outputs |->
                 IF b.outputs[i].name = name THEN entry ELSE b.outputs[i]]]
        ELSE [b EXCEPT !.outputs = Append(@, entry)]

\* lines 233-234 left out
ResetBindingKeep(b) == b
\* lines 233-234: clear_binding_inputs, clear_binding_outputs
ResetBinding(b) == [b EXCEPT !.inputs = EmptyDict, !.outputs = <<>>, !.values = <<>>]

\* lines 235-252 from the k-th graph input on; line 248 raises KeyError for a
\* dtype torch_to_numpy_dtype_dict does not hold
RECURSIVE BindInputsFrom(_, _, _, _, _, _)
BindInputsFrom(k, ins, b, lg, c, dev) ==
    IF k > Len(SessionInputs)
    THEN [inputs |-> ins, binding |-> b, log |-> lg, raised |-> FALSE]
    ELSE LET name == SessionInputs[k]
         IN  IF name \notin DOMAIN ins
             THEN BindInputsFrom(k + 1, ins, b, lg, c, dev)
             ELSE LET tensor == PrepareTensor(ins[name], c, name)
                  IN  IF tensor.dtype \notin SupportedDtypes
                      THEN [inputs |-> ins, binding |-> b, log |-> lg, raised |-> TRUE]
                      ELSE BindInputsFrom(
                              k + 1,
                              [ins EXCEPT ![name] = tensor],
                              bind_input(b, name, dev, NumpyType(tensor.dtype), tensor.ptr),
                              Append(lg, LogEntry("bind_input", name)),
                              c, dev)

RECURSIVE BindOutputsFrom(_, _, _, _)
BindOutputsFrom(k, b, lg, dev) ==
    IF k > Len(SessionOutputs) THEN [binding |-> b, log |-> lg]
    ELSE BindOutputsFrom(k + 1, bind_output(b, SessionOutputs[k], dev),
                         Append(lg, LogEntry("bind_output", SessionOutputs[k])), dev)

\* What the graph computes in call c for output name.
Computed(c, name) == [run |-> c, output |-> name]

\* to_pytorch: the tensor returned for an engine value, and the buffer it was
\* copied from (<<>> when it is a view)
to_pytorch(ort_tensor, clone, copies) ==
    IF ort_tensor.device_name = "cuda"
    THEN IF clone
         THEN [buf |-> <<"torch", ort_tensor.run, ort_tensor.index>>,
               from |-> ort_tensor.data_ptr]
         ELSE [buf |-> ort_tensor.data_ptr, from |-> <<>>]
    ELSE IF copies
         THEN [buf |-> <<"numpy", ort_tensor.run, ort_tensor.index>>,
               from |-> ort_tensor.data_ptr]
         ELSE [buf |-> ort_tensor.data_ptr, from |-> <<>>]

InitBridge ==
    /\ AdvisorIdle
    /\ DetectorIdle
    /\ device \in {"cpu", "cuda", "tpu"}
    /\ clone_tensor \in BOOLEAN
    /\ supplied \in BOOLEAN
    /\ numpy_copies \in (IF device = "cpu" THEN BOOLEAN ELSE {FALSE})
    /\ b_pc = "idle"
    /\ call = 0
    /\ inputs = EmptyDict
    /\ inputs_given = EmptyDict
    /\ binding = EmptyBinding
    /\ mem = EmptyDict
    /\ outputs = <<>>
    /\ results = <<>>
    /\ log = <<>>

\* line 229: the assertion fails
DeviceAssertionFails ==
    /\ b_pc \in {"idle", "returned"}
    /\ call < MaxCalls
    /\ device \notin {"cpu", "cuda"}
    /\ call' = call + 1
    /\ b_pc' = "failed"
    /\ UNCHANGED <<device, clone_tensor, supplied, numpy_copies, inputs,
                   inputs_given, binding, mem, outputs, results, log>>
    /\ UNCHANGED <<advisor_vars, detector_vars>>

\* lines 228-234
StartCall ==
    /\ b_pc \in {"idle", "returned"}
    /\ call < MaxCalls
    /\ device \in {"cpu", "cuda"}
    /\ call' = call + 1
    /\ inputs' \in CallInputs(call + 1)
    /\ inputs_given' = inputs'
    /\ binding' = IF supplied THEN ResetBinding(binding) ELSE EmptyBinding
    /\ log' = IF supplied
              THEN <<LogEntry("clear_binding_inputs", ""),
                     LogEntry("clear_binding_outputs", "")>>
              ELSE <<LogEntry("io_binding", "")>>
    /\ outputs' = <<>>
    /\ b_pc' = "bind_inputs"
    /\ UNCHANGED <<device, clone_tensor, supplied, numpy_copies, mem, results>>
    /\ UNCHANGED <<advisor_vars, detector_vars>>

\* lines 235-252
BindInputs ==
    /\ b_pc = "bind_inputs"
    /\ LET r == BindInputsFrom(1, inputs, binding, log, call, device)
       IN  /\ ~r.raised
           /\ inputs' = r.inputs
           /\ binding' = r.binding
           /\ log' = r.log
    /\ b_pc' = "bind_outputs"
    /\ UNCHANGED <<device, clone_tensor, supplied, numpy_copies, call,
                   inputs_given, mem, outputs, results>>
    /\ UNCHANGED <<advisor_vars, detector_vars>>

\* line 248: KeyError, after the earlier inputs were bound and written back
BindInputsRaises ==
    /\ b_pc = "bind_inputs"
    /\ LET r == BindInputsFrom(1, inputs, binding, log, call, device)
       IN  /\ r.raised
           /\ inputs' = r.inputs
           /\ binding' = r.binding
           /\ log' = r.log
    /\ b_pc' = "failed"
    /\ UNCHANGED <<device, clone_tensor, supplied, numpy_copies, call,
                   inputs_given, mem, outputs, results>>
    /\ UNCHANGED <<advisor_vars, detector_vars>>

\* lines 254-259
BindOutputs ==
    /\ b_pc = "bind_outputs"
    /\ LET r == BindOutputsFrom(1, binding, log, device)
       IN  binding' = r.binding /\ log' = r.log
    /\ b_pc' = "synchronize_inputs"
    /\ UNCHANGED <<device, clone_tensor, supplied, numpy_copies, call, inputs,
                   inputs_given, mem, outputs, results>>
    /\ UNCHANGED <<advisor_vars, detector_vars>>

\* line 260
SynchronizeInputs ==
    /\ b_pc = "synchronize_inputs"
    /\ log' = Append(log, LogEntry("synchronize_inputs", ""))
    /\ b_pc' = "run_with_iobinding"
    /\ UNCHANGED <<device, clone_tensor, supplied, numpy_copies, call, inputs,
                   inputs_given, binding, mem, outputs, results>>
    /\ UNCHANGED <<advisor_vars, detector_vars>>

\* line 261: the engine allocates a buffer for every bound output, either the
\* storage it released (slot 0) or new storage, and writes the result there
RunWithIoBinding ==
    /\ b_pc = "run_with_iobinding"
    /\ \E recycle \in BOOLEAN :
          LET values == [i \in DOMAIN binding.outputs |->
                            [name |-> binding.outputs[i].name,
                             device_name |-> binding.outputs[i].device_type,
                             data_ptr |-> <<"ort", IF recycle THEN 0 ELSE call, i>>,
                             run |-> call,
                             index |-> i]]
          IN  /\ binding' = [binding EXCEPT !.values = values]
              /\ mem' = [p \in DOMAIN mem \cup {values[i].data_ptr : i \in DOMAIN values} |->
                            IF \E i \in DOMAIN values : values[i].data_ptr = p
                            THEN Computed(call, values[CHOOSE i \in DOMAIN values :
                                                          values[i].data_ptr = p].name)
                            ELSE mem[p]]
    /\ log' = Append(log, LogEntry("run_with_iobinding", ""))
    /\ b_pc' = "synchronize_outputs"
    /\ UNCHANGED <<device, clone_tensor, supplied, numpy_copies, call, inputs,
                   inputs_given, outputs, results>>
    /\ UNCHANGED <<advisor_vars, detector_vars>>

\* line 262
SynchronizeOutputs ==
    /\ b_pc = "synchronize_outputs"
    /\ log' = Append(log, LogEntry("synchronize_outputs", ""))
    /\ b_pc' = "materialize"
    /\ UNCHANGED <<device, clone_tensor, supplied, numpy_copies, call, inputs,
                   inputs_given, binding, mem, outputs, results>>
    /\ UNCHANGED <<advisor_vars, detector_vars>>

\* lines 263-269
Materialize ==
    /\ b_pc = "materialize"
    /\ Len(SessionOutputs) = Len(binding.values)
    /\ LET made == [i \in DOMAIN SessionOutputs |->
                       to_pytorch(binding.values[i], clone_tensor, numpy_copies)]
           copied == {i \in DOMAIN made : made[i].from # <<>>}
           after == [p \in DOMAIN mem \cup {made[i].buf : i \in copied} |->
                        IF \E i \in copied : made[i].buf = p
                        THEN mem[made[CHOOSE i \in copied : made[i].buf = p].from]
                        ELSE mem[p]]
           returned == [i \in DOMAIN SessionOutputs |->
                           [name |-> SessionOutputs[i], tensor |-> [buf |-> made[i].buf]]]
       IN  /\ mem' = after
           /\ outputs' = returned
           /\ results' = Append(results,
                                [outputs |-> returned,
                                 content |-> [i \in DOMAIN returned |->
                                                 after[returned[i].tensor.buf]],
                                 given |-> inputs_given])
    /\ log' = Append(log, LogEntry("get_outputs", ""))
    /\ b_pc' = "returned"
    /\ UNCHANGED <<device, clone_tensor, supplied, numpy_copies, call, inputs,
                   inputs_given, binding>>
    /\ UNCHANGED <<advisor_vars, detector_vars>>

NextBridge ==
    \/ DeviceAssertionFails
    \/ StartCall
    \/ BindInputs
    \/ BindInputsRaises
    \/ BindOutputs
    \/ SynchronizeInputs
    \/ RunWithIoBinding
    \/ SynchronizeOutputs
    \/ Materialize

SpecBridge == InitBridge /\ [][NextBridge]_vars
\* the graph inputs the caller's mapping held when the call started, in order
PresentInputs == SelectSeq(SessionInputs, LAMBDA n : n \in DOMAIN inputs_given)

ExpectedLog ==
    (IF supplied
     THEN <<LogEntry("clear_binding_inputs", ""), LogEntry("clear_binding_outputs", "")>>
     ELSE <<LogEntry("io_binding", "")>>)
    \o [i \in DOMAIN PresentInputs |-> LogEntry("bind_input", PresentInputs[i])]
    \o [i \in DOMAIN SessionOutputs |-> LogEntry("bind_output", SessionOutputs[i])]
    \o <<LogEntry("synchronize_inputs", ""), LogEntry("run_with_iobinding", ""),
         LogEntry("synchronize_outputs", ""), LogEntry("get_outputs", "")>>

AfterInputsBound ==
    {"bind_outputs", "synchronize_inputs", "run_with_iobinding",
     "synchronize_outputs", "materialize", "returned"}

\* C4 (as claimed): after a later call has returned, with clone_tensor enabled
\* every tensor of an earlier call still holds the content it was returned
\* with, on either device; with clone_tensor disabled every tensor of an
\* earlier call is a view of storage the engine allocated.
C4_CloneDecidesStability ==
    b_pc = "returned" =>
        \A c \in 1..(Len(results) - 1) : \A i \in DOMAIN results[c].outputs :
            LET buf == results[c].outputs[i].tensor.buf
            IN  /\ clone_tensor => mem[buf] = results[c].content[i]
                /\ ~clone_tensor => buf[1] = "ort"

\* The same statement for the accelerator alone, which the code satisfies.
C4_OnCuda == device = "cuda" => C4_CloneDecidesStability

\* C6: the engine calls of one inference_onnx_binding call are made in one
\* fixed order; no binding is made before the binding is empty, the graph runs
\* with exactly the inputs and outputs bound by this call, and a call that
\* returns hands back one tensor per declared output, holding what this call
\* computed.
C6_FixedOrder ==
    b_pc \in {"bind_inputs"} \cup AfterInputsBound =>
        /\ IsPrefix(log, ExpectedLog)
        /\ b_pc = "bind_inputs" => binding = EmptyBinding
        /\ b_pc \in AfterInputsBound =>
              DOMAIN binding.inputs = Range(PresentInputs)
        /\ b_pc \in AfterInputsBound \ {"bind_outputs"} =>
              [i \in DOMAIN binding.outputs |-> binding.outputs[i].name] = SessionOutputs
        /\ b_pc \in {"bind_inputs", "bind_outputs", "synchronize_inputs",
                     "run_with_iobinding"} => binding.values = <<>>
        /\ b_pc = "returned" =>
              /\ log = ExpectedLog
              /\ Len(outputs) = Len(SessionOutputs)
              /\ \A i \in DOMAIN outputs :
                    /\ outputs[i].name = SessionOutputs[i]
                    /\ mem[outputs[i].tensor.buf] = Computed(call, SessionOutputs[i])

\* a second call on the caller's binding, without an input the first call bound
C6_Witness ==
    /\ b_pc = "returned"
    /\ call = 2
    /\ supplied
    /\ "token_type_ids" \in DOMAIN results[1].given
    /\ "token_type_ids" \notin DOMAIN inputs_given

\* C9: when a call has returned, the caller's mapping has the keys it had; under
\* every key that is a graph input it holds the tensor that was bound, which is
\* contiguous and int32 if the given one was int64; graph inputs it lacks are
\* not bound; the other entries are as given.
C9_InputsWrittenBack ==
    b_pc = "returned" =>
        /\ DOMAIN inputs = DOMAIN inputs_given
        /\ \A n \in DOMAIN inputs :
              IF n \in Range(SessionInputs)
              THEN /\ n \in DOMAIN binding.inputs
                   /\ binding.inputs[n].buffer_ptr = inputs[n].ptr
                   /\ binding.inputs[n].element_type = NumpyType(inputs[n].dtype)
                   /\ inputs[n].contiguous
                   /\ inputs[n].dtype =
                         IF inputs_given[n].dtype = "int64" THEN "int32"
                         ELSE inputs_given[n].dtype
              ELSE inputs[n] = inputs_given[n]
        /\ \A n \in Range(SessionInputs) \ DOMAIN inputs_given :
              n \notin DOMAIN binding.inputs

C9_Witness ==
    /\ b_pc = "returned"
    /\ inputs_given["input_ids"].dtype = "int64"
    /\ inputs["input_ids"].dtype = "int32"
    /\ inputs["input_ids"].data = Words(0, 5)
    /\ "token_type_ids" \notin DOMAIN inputs
    /\ inputs["labels"].dtype = "int64"
====
